---- MODULE Spec2Model ----
(***************************************************************************)
(* Chunk rendering of the rolldown bundler.                                *)
(*                                                                         *)
(*   render_chunk   crates/rolldown/src/utils/chunk/render_chunk.rs        *)
(*   Chunk::render  crates/rolldown/src/bundler/chunk/chunk.rs             *)
(*                                                                         *)
(* One run of the model is one call of one of the two functions on frozen  *)
(* inputs (this, options, graph, chunk_graph).  The per-module renders run *)
(* on a worker pool and finish in any order; everything else is the        *)
(* sequential body of the function, one action per stage.                  *)
(*                                                                         *)
(* Option<T> is a sequence: <<>> is None, <<v>> is Some(v).                *)
(* A text is a string; the final code is the sequence of the pieces'       *)
(* texts with a "\n" element between two pieces.                           *)
(***************************************************************************)
EXTENDS Integers, Sequences, FiniteSets, TLC

VARIABLES
  op,               \* which function runs: "render_chunk" or "Chunk::render"
  this,             \* the chunk being rendered (frozen input)
  options,          \* resolved output options (frozen input)
  graph,            \* link stage output (frozen input)
  chunk_graph,      \* the other chunks (frozen input)
  pool,             \* number of worker threads of the rayon pool
  pc,               \* position in the function body
  status,           \* per member index: "todo", "running", "done"
  slots,            \* per member index: the render's Option<output>
  finished,         \* member indices in the order their renders completed
  prepend_source,   \* ConcatSource: sources added by add_prepend_source
  inner,            \* ConcatSource: sources added by add_source
  rendered_modules, \* FxHashMap module_path -> rendered_module
  rendered_chunk,   \* Option<RenderedChunk>, the summary
  calls,            \* hook invocations so far: [hook, arg, at]
  trace,            \* stages executed so far, in order
  joiner,           \* Chunk::render: the Joiner's appended items
  result,           \* Option<ChunkRenderReturn> / Option<String>
  failure,          \* NoFailure or the error / panic message that ended the run
  call              \* a call of load_source, Chunk::render_file_name or
                    \* RawImportRecord::into_import_record: its arguments,
                    \* position and outcome; [fn |-> "none"] during a render

vars == <<op, this, options, graph, chunk_graph, pool, pc, status, slots,
          finished, prepend_source, inner, rendered_modules, rendered_chunk,
          calls, trace, joiner, result, failure, call>>

inputs == <<op, this, options, graph, chunk_graph, pool>>

----------------------------------------------------------------------------
(* Bounds *)

\* Longest member list of a chunk in the ordering scenarios.
MaxModules == 3
\* Largest worker pool.
MaxPool == 2
\* Longest member list in the strict-mode scenarios.
MaxStrictModules == 2

----------------------------------------------------------------------------
(* Generic helpers *)

None == <<>>
Some(v) == <<v>>
IsSome(o) == Len(o) > 0
Unwrap(o) == o[1]

Range(s) == {s[i] : i \in DOMAIN s}

DistinctSeqs(S, n) ==
  {s \in UNION {[1..k -> S] : k \in 0..n} :
     \A i, j \in DOMAIN s : i # j => s[i] # s[j]}

IncreasingSeqs(S, n) ==
  {s \in DistinctSeqs(S, n) : \A i, j \in DOMAIN s : i < j => s[i] < s[j]}

RECURSIVE Flatten(_)
Flatten(ss) == IF ss = <<>> THEN <<>> ELSE Head(ss) \o Flatten(Tail(ss))

RECURSIVE JoinWith(_, _)
\* The texts of ts with sep between two neighbours.
JoinWith(ts, sep) ==
  IF ts = <<>> THEN <<>>
  ELSE IF Len(ts) = 1 THEN <<ts[1]>>
  ELSE <<ts[1], sep>> \o JoinWith(Tail(ts), sep)

RECURSIVE JoinText(_, _)
\* The texts of ts joined into one text.
JoinText(ts, sep) ==
  IF ts = <<>> THEN ""
  ELSE IF Len(ts) = 1 THEN ts[1]
  ELSE ts[1] \o sep \o JoinText(Tail(ts), sep)

----------------------------------------------------------------------------
(* Paths (std::path::Path): absolute flag and components *)

Path(abs, comps) == [abs |-> abs, comps |-> comps]

\* Path::join: an absolute right-hand side replaces the left-hand side.
PathJoin(a, b) == IF b.abs THEN b ELSE Path(a.abs, a.comps \o b.comps)

\* Path::parent: None for a root and for the empty path.
PathParent(p) ==
  IF p.comps = <<>> THEN None
  ELSE Some(Path(p.abs, SubSeq(p.comps, 1, Len(p.comps) - 1)))

RECURSIVE CommonPrefixLen(_, _)
CommonPrefixLen(a, b) ==
  IF a = <<>> \/ b = <<>> \/ Head(a) # Head(b) THEN 0
  ELSE 1 + CommonPrefixLen(Tail(a), Tail(b))

\* SugarPath::relative: the way from base to p.
PathRelative(p, base) ==
  LET n == CommonPrefixLen(p.comps, base.comps)
  IN  Path(FALSE, [i \in 1..(Len(base.comps) - n) |-> ".."]
                  \o SubSeq(p.comps, n + 1, Len(p.comps)))

----------------------------------------------------------------------------
(* The linked graph: modules, their ASTs and link metadata *)

Formats == {"Esm", "Cjs", "App"}
ExportsKinds == {"Esm", "CommonJs", "None"}
WrapKinds == {"None", "Cjs", "Esm"}
\* What the parsed module holds: nothing, code, or code with a source map.
Bodies == {"empty", "code", "code+map"}
\* What a banner / footer callable does when called; "Absent": not configured.
HookBehaviours == {"Absent", "Err", "Cancel", "OkNone", "OkEmpty", "OkText"}

ModuleIds == 1..(IF MaxModules > MaxStrictModules THEN MaxModules ELSE MaxStrictModules)

ModuleNames == <<"a.js", "b.js", "c.js", "d.js", "e.js", "f.js">>
ModuleName(id) == ModuleNames[id]

NUL == "\\0"
\* resource_id of a module; a virtual module's path starts with a null byte.
ResourceId(m) == IF m.virtual THEN <<NUL, ModuleName(m.id)>> ELSE <<"src", ModuleName(m.id)>>

StartsWithNul(path) == Len(path) > 0 /\ path[1] = NUL

WrapperSymbol == "wrapper_ref"
BannerText == "#!/usr/bin/env node"
FooterText == "/* footer */"

\* render_normal_module: None for a module with nothing to render.
RenderNormalModule(m, ast) ==
  IF ast.body = "empty" THEN None
  ELSE Some([module_path        |-> ResourceId(m),
             module_pretty_path |-> ModuleName(m.id),
             rendered_module    |-> [code |-> "code of " \o ModuleName(m.id)],
             rendered_content   |-> "code of " \o ModuleName(m.id),
             sourcemap          |-> IF ast.body = "code+map"
                                    THEN Some([sources |-> <<Path(TRUE, ResourceId(m))>>])
                                    ELSE None,
             lines_count        |-> 1])

\* Module::render of the older pipeline: Option<String>.
ModuleRender(m, ast) ==
  IF ast.body = "empty" THEN None ELSE Some("code of " \o ModuleName(m.id))

\* One cross-chunk import statement.
ImportStatement(format, imp, chunks) ==
  LET names(sep) == JoinText([i \in DOMAIN imp.items |->
                        IF imp.items[i].imported = imp.items[i].local
                        THEN imp.items[i].local
                        ELSE imp.items[i].imported \o sep \o imp.items[i].local], ", ")
  IN  IF format = "Cjs"
      THEN "const { " \o names(": ") \o " } = require(\"" \o chunks[imp.chunk] \o "\");"
      ELSE "import { " \o names(" as ") \o " } from \"" \o chunks[imp.chunk] \o "\";"

\* render_chunk_imports: one statement per chunk imported from.
RenderChunkImports(chunk, chunks, format) ==
  JoinText([i \in DOMAIN chunk.imports_from_other_chunks |->
              ImportStatement(format, chunk.imports_from_other_chunks[i], chunks)], "\n")

\* render_chunk_exports: None when the chunk exports nothing.
RenderChunkExports(chunk, format) ==
  IF chunk.exports_to_other_chunks = <<>> THEN None
  ELSE LET e == chunk.exports_to_other_chunks
           names == JoinText([i \in DOMAIN e |->
                      IF e[i].alias = e[i].local THEN e[i].local
                      ELSE e[i].local \o " as " \o e[i].alias], ", ")
       IN  IF format = "Cjs" THEN Some("module.exports = { " \o names \o " };")
           ELSE Some("export { " \o names \o " };")

\* Symbols::canonical_name_for
CanonicalNameFor(ref, canonical_names) == canonical_names[ref]

\* generate_rendered_chunk: the summary handed to the hooks and returned.
GenerateRenderedChunk(chunk, modules) ==
  [is_entry   |-> chunk.kind.tag = "EntryPoint",
   module_ids |-> chunk.modules,
   modules    |-> modules]

----------------------------------------------------------------------------
(* ConcatSource (rolldown_sourcemap) *)

Source(stage, text, sourcemap) == [stage |-> stage, text |-> text, sourcemap |-> sourcemap]
RawSource(stage, text) == Source(stage, text, None)

AddSource(sources, s) == Append(sources, s)
\* Prepended sources keep the order of their calls and precede all others.
AddPrependSource(sources, s) == Append(sources, s)

ContentAndSourcemap(pre, inn) ==
  LET all == pre \o inn
      maps == Flatten([i \in DOMAIN all |->
                IF IsSome(all[i].sourcemap) THEN Unwrap(all[i].sourcemap).sources ELSE <<>>])
  IN [content |-> JoinWith([i \in DOMAIN all |-> all[i].text], "\n"),
      map     |-> IF \E i \in DOMAIN all : IsSome(all[i].sourcemap)
                  THEN Some([sources |-> maps]) ELSE None]

----------------------------------------------------------------------------
(* Inputs *)

Position(ms, id) == CHOOSE i \in DOMAIN ms : ms[i] = id

\* The link output for member list ms; ek, strict, virt and body give the
\* members' attributes by position, entry / wrap / wref the entry's metadata.
MkGraph(ms, ek, strict, virt, body, entry, wrap, wref) ==
  [normal_modules |-> [id \in ModuleIds |->
      IF id \in Range(ms)
      THEN [id |-> id, exports_kind |-> ek[Position(ms, id)], virtual |-> virt[Position(ms, id)]]
      ELSE [id |-> id, exports_kind |-> "None", virtual |-> FALSE]],
   ast_table |-> [id \in ModuleIds |->
      IF id \in Range(ms)
      THEN [contains_use_strict |-> strict[Position(ms, id)], body |-> body[Position(ms, id)]]
      ELSE [contains_use_strict |-> FALSE, body |-> "empty"]],
   metas |-> [id \in ModuleIds |->
      IF id = entry THEN [wrap_kind |-> wrap, wrapper_ref |-> wref]
      ELSE [wrap_kind |-> "None", wrapper_ref |-> None]]]

Common == [tag |-> "Common", module |-> 0]
EntryPoint(m) == [tag |-> "EntryPoint", module |-> m]

MkChunk(kind, ms, imports, exports, filename) ==
  [kind |-> kind,
   modules |-> ms,
   canonical_names |-> [r \in {WrapperSymbol} |-> "require_entry"],
   imports_from_other_chunks |-> imports,
   exports_to_other_chunks |-> exports,
   preliminary_filename |-> filename]

MkOptions(format, banner, footer, cwd, dir) ==
  [format |-> format, banner |-> banner, footer |-> footer, cwd |-> cwd, dir |-> dir]

OneImport == <<[chunk |-> 1, items |-> <<[imported |-> "x", local |-> "x$1"]>>]>>
OneExport == <<[local |-> "y$1", alias |-> "y"]>>
OtherChunks == <<"./shared.js">>

Cwds == {Path(TRUE, <<>>), Path(TRUE, <<"w">>)}
Dirs == {Path(FALSE, <<>>), Path(FALSE, <<"dist">>)}
\* "", "/", "a.js", "assets/a.js"
FileNames == {Path(FALSE, <<>>), Path(TRUE, <<>>), Path(FALSE, <<"a.js">>),
              Path(FALSE, <<"assets", "a.js">>)}

DefaultCwd == Path(TRUE, <<"w">>)
DefaultDir == Path(FALSE, <<"dist">>)
DefaultFileName == Some(Path(FALSE, <<"a.js">>))

\* The text of an error or of a panic: its pieces in their order, a piece
\* being a string or, for a character that a string here cannot hold, the
\* code point of that character. The text is the pieces put together.
Message(text) == <<text>>
NoFailure == <<>>

Const(ms, v) == [i \in DOMAIN ms |-> v]

InitLocals ==
  /\ pc = "start"
  /\ status = [i \in DOMAIN this.modules |-> "todo"]
  /\ slots = [i \in DOMAIN this.modules |-> None]
  /\ finished = <<>>
  /\ prepend_source = <<>>
  /\ inner = <<>>
  /\ rendered_modules = <<>>
  /\ rendered_chunk = None
  /\ calls = <<>>
  /\ trace = <<>>
  /\ joiner = <<>>
  /\ result = None
  /\ failure = NoFailure

\* Member lists in every order, modules with and without a fragment, every
\* pool size, both functions.
InitOrder ==
  \E ms \in DistinctSeqs(1..MaxModules, MaxModules) :
  \E body \in [DOMAIN ms -> {"empty", "code"}] :
  \E f \in Formats \cup {"Chunk::render"} :
    /\ op = IF f \in Formats THEN "render_chunk" ELSE "Chunk::render"
    /\ pool \in 1..MaxPool
    /\ this = MkChunk(Common, ms, <<>>, <<>>, DefaultFileName)
    /\ options = MkOptions(IF f \in Formats THEN f ELSE "Esm", "Absent", "Absent",
                           DefaultCwd, DefaultDir)
    /\ graph = MkGraph(ms, Const(ms, "Esm"), Const(ms, FALSE), Const(ms, FALSE), body,
                       0, "None", None)

\* Every export kind and use-strict flag of the members, every banner.
InitStrict ==
  \E ms \in IncreasingSeqs(1..MaxStrictModules, MaxStrictModules) :
  \E ek \in [DOMAIN ms -> ExportsKinds] :
  \E strict \in [DOMAIN ms -> BOOLEAN] :
    /\ op = "render_chunk"
    /\ pool = 1
    /\ this = MkChunk(Common, ms, <<>>, <<>>, DefaultFileName)
    /\ \E f \in Formats, b \in HookBehaviours, ft \in {"Absent", "OkText", "Err"} :
         options = MkOptions(f, b, ft, DefaultCwd, DefaultDir)
    /\ graph = MkGraph(ms, ek, strict, Const(ms, FALSE), Const(ms, "code"), 0, "None", None)

\* Entry and common chunks, every wrap kind with and without wrapper
\* reference, with and without imports and exports.
InitEntry ==
  \E ms \in {<<1>>, <<2, 1>>} :
  \E kind \in {Common} \cup {EntryPoint(m) : m \in Range(ms)} :
  \E wrap \in WrapKinds, wref \in {None, Some(WrapperSymbol)} :
    /\ kind = Common => wrap = "None" /\ wref = None
    /\ op = "render_chunk"
    /\ pool = 1
    /\ \E imports \in {<<>>, OneImport}, exports \in {<<>>, OneExport} :
         this = MkChunk(kind, ms, imports, exports, DefaultFileName)
    /\ \E f \in Formats, b \in {"Absent", "OkText"}, ft \in {"Absent", "OkText", "Err"} :
         options = MkOptions(f, b, ft, DefaultCwd, DefaultDir)
    /\ graph = MkGraph(ms, Const(ms, "Esm"), Const(ms, FALSE), Const(ms, FALSE),
                       [i \in DOMAIN ms |-> IF ms[i] = 1 THEN "code+map" ELSE "code"],
                       kind.module, wrap, wref)

\* Every working directory, output directory and preliminary file name.
InitPath ==
  \E cwd \in Cwds, dir \in Dirs, fname \in {None} \cup {Some(n) : n \in FileNames} :
    /\ op = "render_chunk"
    /\ pool = 1
    /\ this = MkChunk(Common, <<1, 2>>, <<>>, <<>>, fname)
    /\ \E f \in Formats, b \in {"Absent", "OkText", "Err"}, ft \in {"Absent", "OkText", "Err"} :
         options = MkOptions(f, b, ft, cwd, dir)
    /\ graph = MkGraph(<<1, 2>>, <<"Esm", "Esm">>, <<FALSE, FALSE>>, <<FALSE, TRUE>>,
                       <<"code+map", "code">>, 0, "None", None)

\* Every pair of banner and footer behaviours on a wrapped entry chunk.
InitHooks ==
  \E f \in Formats, b \in HookBehaviours, ft \in HookBehaviours :
    /\ op = "render_chunk"
    /\ pool = 1
    /\ this = MkChunk(EntryPoint(2), <<1, 2>>, OneImport, OneExport, DefaultFileName)
    /\ options = MkOptions(f, b, ft, DefaultCwd, DefaultDir)
    /\ graph = MkGraph(<<1, 2>>, <<"Esm", "CommonJs">>, <<FALSE, TRUE>>, <<FALSE, FALSE>>,
                       <<"code", "code">>, 2, "Cjs", Some(WrapperSymbol))

\* Members with a path that starts with a null byte and members with an
\* ordinary path, each with and without a fragment.
InitVirtual ==
  \E ms \in IncreasingSeqs(1..MaxStrictModules, MaxStrictModules) :
  \E virt \in [DOMAIN ms -> BOOLEAN] :
  \E body \in [DOMAIN ms -> Bodies] :
  \E f \in Formats :
    /\ op = "render_chunk"
    /\ pool = 1
    /\ this = MkChunk(Common, ms, <<>>, <<>>, DefaultFileName)
    /\ options = MkOptions(f, "Absent", "OkText", DefaultCwd, DefaultDir)
    /\ graph = MkGraph(ms, Const(ms, "Esm"), Const(ms, FALSE), virt, body, 0, "None", None)

NoCall == [fn |-> "none"]

Init ==
  /\ call = NoCall
  /\ chunk_graph = OtherChunks
  /\ \/ InitOrder
     \/ InitStrict
     \/ InitEntry
     \/ InitPath
     \/ InitHooks
     \/ InitVirtual
  /\ InitLocals

----------------------------------------------------------------------------
(* Parallel per-module rendering: modules.par_iter() ... collect::<Vec<_>>() *)

Running == {i \in DOMAIN status : status[i] = "running"}
AllRendered == \A i \in DOMAIN status : status[i] = "done"

Member(i) == graph.normal_modules[this.modules[i]]
MemberAst(i) == graph.ast_table[this.modules[i]]

\* A free worker picks up the render of member i.
StartRender(i) ==
  /\ pc = "render"
  /\ status[i] = "todo"
  /\ Cardinality(Running) < pool
  /\ status' = [status EXCEPT ![i] = "running"]
  /\ UNCHANGED <<call, inputs, pc, slots, finished, prepend_source, inner, rendered_modules,
                 rendered_chunk, calls, trace, joiner, result, failure>>

\* The render of member i completes and leaves its output in the slot of i.
FinishRender(i) ==
  /\ pc = "render"
  /\ status[i] = "running"
  /\ status' = [status EXCEPT ![i] = "done"]
  /\ slots' = [slots EXCEPT ![i] = IF op = "render_chunk"
                                   THEN RenderNormalModule(Member(i), MemberAst(i))
                                   ELSE ModuleRender(Member(i), MemberAst(i))]
  /\ finished' = Append(finished, i)
  /\ UNCHANGED <<call, inputs, pc, prepend_source, inner, rendered_modules, rendered_chunk,
                 calls, trace, joiner, result, failure>>

\* Mutant: the outputs in the order the renders completed.
CollectedInCompletionOrder == Flatten([k \in DOMAIN finished |-> slots[finished[k]]])

\* filter_map(..).collect::<Vec<_>>(): the outputs that are Some, by member index.
Collected == Flatten(slots)

----------------------------------------------------------------------------
(* render_chunk *)

\* Mutant: the code of the module, then its path comment.
ModuleSourcesCodeFirst(out) ==
  <<Source("module", out.rendered_content, out.sourcemap),
    RawSource("path_comment", "// " \o out.module_pretty_path)>>

\* The two sources one module output adds: its path comment, then its code.
ModuleSources(out) ==
  <<RawSource("path_comment", "// " \o out.module_pretty_path),
    Source("module", out.rendered_content, out.sourcemap)>>

RECURSIVE InsertRenderedAll(_, _)
\* Mutant: every output is inserted, whatever its path starts with.
InsertRenderedAll(map, outs) ==
  IF outs = <<>> THEN map
  ELSE LET out == Head(outs)
           next == [k \in DOMAIN map \cup {out.module_path} |->
                      IF k = out.module_path THEN out.rendered_module ELSE map[k]]
       IN  InsertRenderedAll(next, Tail(outs))

RECURSIVE InsertRendered(_, _)
\* The for_each's inserts into rendered_modules, in order.
InsertRendered(map, outs) ==
  IF outs = <<>> THEN map
  ELSE LET out == Head(outs)
           next == IF ~StartsWithNul(out.module_path)
                   THEN [k \in DOMAIN map \cup {out.module_path} |->
                           IF k = out.module_path THEN out.rendered_module ELSE map[k]]
                   ELSE map
       IN  InsertRendered(next, Tail(outs))

\* Mutant: the file name of the chunk is checked before anything is rendered.
BeginCheckingFileName ==
  /\ pc = "start"
  /\ op = "render_chunk"
  /\ IF this.preliminary_filename = None
     THEN /\ pc' = "panicked"
          /\ failure' = Message("chunk file name should be generated before rendering")
          /\ UNCHANGED <<inner, trace>>
     ELSE /\ IF options.format \in {"Esm", "Cjs"}
             THEN /\ inner' = AddSource(inner, RawSource("imports",
                                 RenderChunkImports(this, chunk_graph, options.format)))
                  /\ trace' = Append(trace, "imports")
             ELSE UNCHANGED <<inner, trace>>
          /\ pc' = "render"
          /\ UNCHANGED failure
  /\ UNCHANGED <<call, inputs, status, slots, finished, prepend_source, rendered_modules,
                 rendered_chunk, calls, joiner, result>>

\* let mut rendered_modules, concat_source; the import preamble (Esm, Cjs).
Begin ==
  /\ pc = "start"
  /\ op = "render_chunk"
  /\ IF options.format \in {"Esm", "Cjs"}
     THEN /\ inner' = AddSource(inner, RawSource("imports",
                         RenderChunkImports(this, chunk_graph, options.format)))
          /\ trace' = Append(trace, "imports")
     ELSE UNCHANGED <<inner, trace>>
  /\ pc' = "render"
  /\ UNCHANGED <<call, inputs, status, slots, finished, prepend_source, rendered_modules,
                 rendered_chunk, calls, joiner, result, failure>>

\* Mutant: the summary is generated before the for_each fills rendered_modules.
CollectModulesSummaryFirst ==
  /\ pc = "render"
  /\ op = "render_chunk"
  /\ AllRendered
  /\ rendered_chunk' = Some(GenerateRenderedChunk(this, rendered_modules))
  /\ inner' = inner \o Flatten([k \in DOMAIN Collected |-> ModuleSources(Collected[k])])
  /\ rendered_modules' = InsertRendered(rendered_modules, Collected)
  /\ trace' = trace \o <<"summary", "modules">>
  /\ pc' = "banner"
  /\ UNCHANGED <<call, inputs, status, slots, finished, prepend_source, calls, joiner, result,
                 failure>>

\* collect, the sequential for_each over the outputs, generate_rendered_chunk.
CollectModules ==
  /\ pc = "render"
  /\ op = "render_chunk"
  /\ AllRendered
  /\ inner' = inner \o Flatten([k \in DOMAIN Collected |-> ModuleSources(Collected[k])])
  /\ rendered_modules' = InsertRendered(rendered_modules, Collected)
  /\ rendered_chunk' = Some(GenerateRenderedChunk(this, rendered_modules'))
  /\ trace' = trace \o <<"modules", "summary">>
  /\ pc' = "banner"
  /\ UNCHANGED <<call, inputs, status, slots, finished, prepend_source, calls, joiner, result,
                 failure>>

\* What awaiting a configured callable yields.
HookCall(behaviour, text) ==
  CASE behaviour = "Err"     -> [tag |-> "Err", value |-> None]
    [] behaviour = "Cancel"  -> [tag |-> "Cancel", value |-> None]
    [] behaviour = "OkNone"  -> [tag |-> "Ok", value |-> None]
    [] behaviour = "OkEmpty" -> [tag |-> "Ok", value |-> Some("")]
    [] behaviour = "OkText"  -> [tag |-> "Ok", value |-> Some(text)]

\* if let Some(banner) = options.banner.as_ref(): the callable is called with
\* the summary and awaited; the render is suspended until it completes.
CallBanner ==
  /\ pc = "banner"
  /\ IF options.banner = "Absent"
     THEN /\ pc' = "use_strict"
          /\ UNCHANGED <<calls, trace>>
     ELSE /\ calls' = Append(calls, [hook |-> "banner", arg |-> rendered_chunk])
          /\ trace' = Append(trace, "banner")
          /\ pc' = "banner_await"
  /\ UNCHANGED <<call, inputs, status, slots, finished, prepend_source, inner, rendered_modules,
                 rendered_chunk, joiner, result, failure>>

\* Mutant: the banner is appended like any other source.
AddBannerAppended ==
  /\ pc = "banner_await"
  /\ LET r == HookCall(options.banner, BannerText)
     IN  /\ pc' = CASE r.tag = "Err" -> "returned_err"
                    [] r.tag = "Cancel" -> "cancelled"
                    [] OTHER -> "use_strict"
         /\ failure' = IF r.tag = "Err" THEN Message("banner failed") ELSE failure
         /\ inner' =
              IF r.tag = "Ok" /\ IsSome(r.value) /\ Unwrap(r.value) # ""
              THEN AddSource(inner, RawSource("banner", Unwrap(r.value)))
              ELSE inner
  /\ UNCHANGED <<call, inputs, status, slots, finished, prepend_source, rendered_modules,
                 rendered_chunk, calls, trace, joiner, result>>
AddBanner ==
  /\ pc = "banner_await"
  /\ LET r == HookCall(options.banner, BannerText)
     IN  /\ pc' = CASE r.tag = "Err" -> "returned_err"
                    [] r.tag = "Cancel" -> "cancelled"
                    [] OTHER -> "use_strict"
         /\ failure' = IF r.tag = "Err" THEN Message("banner failed") ELSE failure
         /\ prepend_source' =
              IF r.tag = "Ok" /\ IsSome(r.value) /\ Unwrap(r.value) # ""
              THEN AddPrependSource(prepend_source, RawSource("banner", Unwrap(r.value)))
              ELSE prepend_source
  /\ UNCHANGED <<call, inputs, status, slots, finished, inner, rendered_modules, rendered_chunk,
                 calls, trace, joiner, result>>
AreModulesAllEsm ==
  \A i \in DOMAIN this.modules :
    graph.normal_modules[this.modules[i]].exports_kind = "Esm"

AreModulesAllStrict ==
  \A i \in DOMAIN this.modules :
    LET id == this.modules[i]
    IN  IF graph.normal_modules[id].exports_kind = "Esm" THEN TRUE
        ELSE graph.ast_table[id].contains_use_strict

\* Add the use strict directive if needed.
AddUseStrict ==
  /\ pc = "use_strict"
  /\ prepend_source' =
       IF options.format = "Cjs" /\ AreModulesAllStrict
       THEN AddPrependSource(prepend_source, RawSource("use_strict", "\"use strict\";\n"))
       ELSE prepend_source
  /\ trace' = Append(trace, "use_strict")
  /\ pc' = "wrapper"
  /\ UNCHANGED <<call, inputs, status, slots, finished, inner, rendered_modules, rendered_chunk,
                 calls, joiner, result, failure>>

\* Mutant: the output format is not looked at.
EntryWrapKindAnyFormat ==
  IF this.kind.tag = "EntryPoint" THEN graph.metas[this.kind.module].wrap_kind ELSE "None"

\* The wrap kind the matches on this.kind and options.format select: that of
\* the entry of an entry chunk under Esm, nothing to do otherwise.
EntryWrapKind ==
  IF this.kind.tag = "EntryPoint" /\ options.format = "Esm"
  THEN graph.metas[this.kind.module].wrap_kind
  ELSE "None"

\* The source of the wrapper invocation.
WrapperSource(wrap_kind, wrapper_ref) ==
  LET wrapper_ref_name == CanonicalNameFor(wrapper_ref, this.canonical_names)
  IN  RawSource("wrapper", IF wrap_kind = "Esm"
                           THEN wrapper_ref_name \o "();"
                           ELSE "export default " \o wrapper_ref_name \o "();\n")

\* The message of the panic of Option::unwrap on None, as the standard
\* library words it: Option::unwrap() and None stand between grave accents.
UnwrapNoneMessage ==
  LET grave_accent == 96
  IN  <<"called ", grave_accent, "Option::unwrap()", grave_accent, " on a ", grave_accent,
        "None", grave_accent, " value">>

\* Mutant: the wrapper invocation is put in front of the module code.
AddEntryWrapperInFront ==
  /\ pc = "wrapper"
  /\ LET entry_meta == graph.metas[this.kind.module]
     IN  IF EntryWrapKind # "None" /\ entry_meta.wrapper_ref = None
         THEN /\ pc' = "panicked"
              /\ failure' = UnwrapNoneMessage
              /\ UNCHANGED <<inner, trace>>
         ELSE /\ inner' =
                   IF EntryWrapKind # "None"
                   THEN <<WrapperSource(EntryWrapKind, Unwrap(entry_meta.wrapper_ref))>> \o inner
                   ELSE inner
              /\ trace' = Append(trace, "wrapper")
              /\ pc' = "exports"
              /\ UNCHANGED failure
  /\ UNCHANGED <<call, inputs, status, slots, finished, prepend_source, rendered_modules,
                 rendered_chunk, calls, joiner, result>>

\* Mutant: a missing wrapper reference is passed over.
AddEntryWrapperIfPresent ==
  /\ pc = "wrapper"
  /\ LET entry_meta == graph.metas[this.kind.module]
     IN  /\ inner' =
              IF EntryWrapKind # "None" /\ entry_meta.wrapper_ref # None
              THEN AddSource(inner, WrapperSource(EntryWrapKind, Unwrap(entry_meta.wrapper_ref)))
              ELSE inner
         /\ trace' = Append(trace, "wrapper")
         /\ pc' = "exports"
  /\ UNCHANGED <<call, inputs, status, slots, finished, prepend_source, rendered_modules,
                 rendered_chunk, calls, joiner, result, failure>>

\* The entry wrapper invocation; unwrap() of a missing wrapper_ref panics.
AddEntryWrapper ==
  /\ pc = "wrapper"
  /\ LET entry_meta == graph.metas[this.kind.module]
     IN  IF EntryWrapKind # "None" /\ entry_meta.wrapper_ref = None
         THEN /\ pc' = "panicked"
              /\ failure' = UnwrapNoneMessage
              /\ UNCHANGED <<inner, trace>>
         ELSE /\ inner' =
                   IF EntryWrapKind # "None"
                   THEN AddSource(inner, WrapperSource(EntryWrapKind, Unwrap(entry_meta.wrapper_ref)))
                   ELSE inner
              /\ trace' = Append(trace, "wrapper")
              /\ pc' = "exports"
              /\ UNCHANGED failure
  /\ UNCHANGED <<call, inputs, status, slots, finished, prepend_source, rendered_modules,
                 rendered_chunk, calls, joiner, result>>

\* Mutant: the export block is added under every format.
AddExportsAnyFormat ==
  /\ pc = "exports"
  /\ LET exports == RenderChunkExports(this, options.format)
     IN  inner' = IF IsSome(exports)
                  THEN AddSource(inner, RawSource("exports", Unwrap(exports)))
                  ELSE inner
  /\ trace' = Append(trace, "exports")
  /\ pc' = "footer"
  /\ UNCHANGED <<call, inputs, status, slots, finished, prepend_source, rendered_modules,
                 rendered_chunk, calls, joiner, result, failure>>

\* Mutant: the export map is taken out of the chunk when its block is added.
AddExportsTakingMap ==
  /\ pc = "exports"
  /\ LET exports == RenderChunkExports(this, options.format)
     IN  inner' = IF options.format \in {"Esm", "Cjs"} /\ IsSome(exports)
                  THEN AddSource(inner, RawSource("exports", Unwrap(exports)))
                  ELSE inner
  /\ this' = [this EXCEPT !.exports_to_other_chunks = <<>>]
  /\ trace' = Append(trace, "exports")
  /\ pc' = "footer"
  /\ UNCHANGED <<call, op, options, graph, chunk_graph, pool, status, slots, finished,
                 prepend_source, rendered_modules, rendered_chunk, calls, joiner, result,
                 failure>>

\* The export block (Esm, Cjs).
AddExports ==
  /\ pc = "exports"
  /\ LET exports == RenderChunkExports(this, options.format)
     IN  inner' = IF options.format \in {"Esm", "Cjs"} /\ IsSome(exports)
                  THEN AddSource(inner, RawSource("exports", Unwrap(exports)))
                  ELSE inner
  /\ trace' = Append(trace, "exports")
  /\ pc' = "footer"
  /\ UNCHANGED <<call, inputs, status, slots, finished, prepend_source, rendered_modules,
                 rendered_chunk, calls, joiner, result, failure>>

\* if let Some(footer) = options.footer.as_ref(): the callable is called with
\* the summary and awaited; the render is suspended until it completes.
CallFooter ==
  /\ pc = "footer"
  /\ IF options.footer = "Absent"
     THEN /\ pc' = "finish"
          /\ UNCHANGED <<calls, trace>>
     ELSE /\ calls' = Append(calls, [hook |-> "footer", arg |-> rendered_chunk])
          /\ trace' = Append(trace, "footer")
          /\ pc' = "footer_await"
  /\ UNCHANGED <<call, inputs, status, slots, finished, prepend_source, inner, rendered_modules,
                 rendered_chunk, joiner, result, failure>>

\* Mutant: a failed footer call counts as no footer.
AddFooterIgnoringErr ==
  /\ pc = "footer_await"
  /\ LET r == HookCall(options.footer, FooterText)
     IN  /\ pc' = IF r.tag = "Cancel" THEN "cancelled" ELSE "finish"
         /\ failure' = failure
         /\ inner' =
              IF r.tag = "Ok" /\ IsSome(r.value) /\ Unwrap(r.value) # ""
              THEN AddSource(inner, RawSource("footer", Unwrap(r.value)))
              ELSE inner
  /\ UNCHANGED <<call, inputs, status, slots, finished, prepend_source, rendered_modules,
                 rendered_chunk, calls, trace, joiner, result>>
AddFooterKeepingEmpty ==
  /\ pc = "footer_await"
  /\ LET r == HookCall(options.footer, FooterText)
     IN  /\ pc' = CASE r.tag = "Err" -> "returned_err"
                    [] r.tag = "Cancel" -> "cancelled"
                    [] OTHER -> "finish"
         /\ failure' = IF r.tag = "Err" THEN Message("footer failed") ELSE failure
         /\ inner' =
              IF r.tag = "Ok" /\ IsSome(r.value)
              THEN AddSource(inner, RawSource("footer", Unwrap(r.value)))
              ELSE inner
  /\ UNCHANGED <<call, inputs, status, slots, finished, prepend_source, rendered_modules,
                 rendered_chunk, calls, trace, joiner, result>>
AddFooter ==
  /\ pc = "footer_await"
  /\ LET r == HookCall(options.footer, FooterText)
     IN  /\ pc' = CASE r.tag = "Err" -> "returned_err"
                    [] r.tag = "Cancel" -> "cancelled"
                    [] OTHER -> "finish"
         /\ failure' = IF r.tag = "Err" THEN Message("footer failed") ELSE failure
         /\ inner' =
              IF r.tag = "Ok" /\ IsSome(r.value) /\ Unwrap(r.value) # ""
              THEN AddSource(inner, RawSource("footer", Unwrap(r.value)))
              ELSE inner
  /\ UNCHANGED <<call, inputs, status, slots, finished, prepend_source, rendered_modules,
                 rendered_chunk, calls, trace, joiner, result>>
FinishWithDefaults ==
  /\ pc = "finish"
  /\ trace' = Append(trace, "content")
  /\ LET cs == ContentAndSourcemap(prepend_source, inner)
         name == IF this.preliminary_filename = None THEN Path(FALSE, <<"chunk.js">>)
                 ELSE Unwrap(this.preliminary_filename)
         file_path == PathJoin(PathJoin(options.cwd, options.dir), name)
         file_dir == IF PathParent(file_path) = None THEN file_path
                     ELSE Unwrap(PathParent(file_path))
     IN  /\ pc' = "returned_ok"
         /\ result' = Some(
              [code |-> cs.content,
               map |-> IF IsSome(cs.map)
                       THEN LET src == Unwrap(cs.map).sources
                            IN  Some([sources |-> [i \in DOMAIN src |->
                                        PathRelative(src[i], file_dir)]])
                       ELSE None,
               rendered_chunk |-> Unwrap(rendered_chunk),
               augment_chunk_hash |-> None,
               file_dir |-> file_dir,
               preliminary_filename |-> name])
         /\ UNCHANGED failure
  /\ UNCHANGED <<call, inputs, status, slots, finished, prepend_source, inner, rendered_modules,
                 rendered_chunk, calls, joiner>>

\* content_and_sourcemap, the file path and its directory, the return value.
Finish ==
  /\ pc = "finish"
  /\ trace' = Append(trace, "content")
  /\ LET cs == ContentAndSourcemap(prepend_source, inner)
         name == this.preliminary_filename
     IN  IF name = None
         THEN /\ pc' = "panicked"
              /\ failure' = Message("chunk file name should be generated before rendering")
              /\ UNCHANGED result
         ELSE LET file_path == PathJoin(PathJoin(options.cwd, options.dir), Unwrap(name))
                  file_dir == PathParent(file_path)
              IN  IF file_dir = None
                  THEN /\ pc' = "panicked"
                       /\ failure' = Message("chunk file name should have a parent")
                       /\ UNCHANGED result
                  ELSE /\ pc' = "returned_ok"
                       /\ result' = Some(
                            [code |-> cs.content,
                             map |-> IF IsSome(cs.map)
                                     THEN LET src == Unwrap(cs.map).sources
                                          IN  Some([sources |-> [i \in DOMAIN src |->
                                                      PathRelative(src[i], Unwrap(file_dir))]])
                                     ELSE None,
                             rendered_chunk |-> Unwrap(rendered_chunk),
                             augment_chunk_hash |-> None,
                             file_dir |-> Unwrap(file_dir),
                             preliminary_filename |-> Unwrap(name)])
                       /\ UNCHANGED failure
  /\ UNCHANGED <<call, inputs, status, slots, finished, prepend_source, inner, rendered_modules,
                 rendered_chunk, calls, joiner>>

----------------------------------------------------------------------------
(* Chunk::render *)

\* Joiner with separator "\n"; the import statements.
ChunkRenderBegin ==
  /\ pc = "start"
  /\ op = "Chunk::render"
  /\ joiner' = Append(joiner, RenderChunkImports(this, chunk_graph, "Esm"))
  /\ pc' = "render"
  /\ UNCHANGED <<call, inputs, status, slots, finished, prepend_source, inner, rendered_modules,
                 rendered_chunk, calls, trace, result, failure>>

\* collect, for_each append, the exports, join.
ChunkRenderFinish ==
  /\ pc = "render"
  /\ op = "Chunk::render"
  /\ AllRendered
  /\ LET exports == RenderChunkExports(this, "Esm")
     IN  joiner' = joiner \o Collected \o exports
  /\ result' = Some(JoinWith(joiner', "\n"))
  /\ pc' = "returned_ok"
  /\ UNCHANGED <<call, inputs, status, slots, finished, prepend_source, inner, rendered_modules,
                 rendered_chunk, calls, trace, failure>>

----------------------------------------------------------------------------

Next ==
  \/ Begin
  \/ \E i \in DOMAIN status : StartRender(i)
  \/ \E i \in DOMAIN status : FinishRender(i)
  \/ CollectModules
  \/ CallBanner
  \/ AddBanner
  \/ AddUseStrict
  \/ AddEntryWrapper
  \/ AddExports
  \/ CallFooter
  \/ AddFooter
  \/ Finish
  \/ ChunkRenderBegin
  \/ ChunkRenderFinish

Spec == Init /\ [][Next]_vars

----------------------------------------------------------------------------
(* Properties *)

Texts(sources) == [i \in DOMAIN sources |-> sources[i].text]

\* The sources of one stage, in their order.
OfStage(sources, stage) ==
  LET Is(x) == x.stage = stage IN SelectSeq(sources, Is)

Positions(seq, x) == {i \in DOMAIN seq : seq[i] = x}

ModuleCode(id) == "code of " \o ModuleName(id)
MemberCodes == {ModuleCode(this.modules[i]) : i \in DOMAIN this.modules}

\* The members that have something to render, in static member order.
RenderingMembers ==
  LET Renders(id) == graph.ast_table[id].body # "empty" IN SelectSeq(this.modules, Renders)

\* The member code in static member order.
StaticFragments == [k \in DOMAIN RenderingMembers |-> ModuleCode(RenderingMembers[k])]

\* The member code of a final text, in the order it stands there.
FragmentsOf(code) ==
  LET IsFragment(t) == t \in MemberCodes IN SelectSeq(code, IsFragment)

Returned == pc = "returned_ok"
Artifact == Unwrap(result)

\* C1: for every completion order of the parallel renders and every pool
\* size, the module fragments stand in the concat source and in the final
\* output of render_chunk and of Chunk::render in the order of the static
\* member list, without the members that rendered to nothing; the collected
\* sources are those a sequential render of the member list gives.
C1_StaticModuleOrder ==
  /\ (op = "render_chunk" /\ pc \notin {"start", "render"}) =>
       /\ Texts(OfStage(inner, "module")) = StaticFragments
       /\ OfStage(inner, "module") =
            [k \in DOMAIN RenderingMembers |->
               LET m == graph.normal_modules[RenderingMembers[k]]
                   out == Unwrap(RenderNormalModule(m, graph.ast_table[m.id]))
               IN  Source("module", out.rendered_content, out.sourcemap)]
  /\ (op = "render_chunk" /\ Returned) => FragmentsOf(Artifact.code) = StaticFragments
  /\ (op = "Chunk::render" /\ Returned) => FragmentsOf(Artifact) = StaticFragments

\* Two fragments whose renders completed against the member order, a module
\* without fragment between or around them, the largest pool.
C1_Witness ==
  /\ Returned
  /\ op = "render_chunk"
  /\ pool = MaxPool
  /\ Len(StaticFragments) >= 2
  /\ Len(StaticFragments) < Len(this.modules)
  /\ \E a, b \in DOMAIN finished :
       /\ a < b
       /\ finished[a] > finished[b]
       /\ slots[finished[a]] # None
       /\ slots[finished[b]] # None

\* C2: a banner that returns non-empty text is the first piece of the final
\* output under every format, before the use strict prologue and whatever
\* the footer returns.
C2_BannerFirst ==
  (op = "render_chunk" /\ Returned /\ options.banner = "OkText") =>
     /\ Artifact.code[1] = BannerText
     /\ Positions(Artifact.code, BannerText) = {1}

\* A CommonJS chunk that got the prologue, with banner and footer text.
C2_Witness ==
  /\ Returned
  /\ options.format = "Cjs"
  /\ options.banner = "OkText"
  /\ options.footer = "OkText"
  /\ OfStage(prepend_source, "use_strict") # <<>>
  /\ Artifact.code[1] = BannerText

UseStrictText == "\"use strict\";\n"

\* Every member is of ES-module export kind or already strict.
EveryMemberStrict ==
  \A id \in Range(this.modules) :
    \/ graph.normal_modules[id].exports_kind = "Esm"
    \/ graph.ast_table[id].contains_use_strict

\* C3: under CommonJS the output holds the use strict prologue exactly when
\* every member is of ES-module export kind or has an already strict source.
C3_UseStrictIffAllStrict ==
  (op = "render_chunk" /\ Returned /\ options.format = "Cjs") =>
     /\ (Positions(Artifact.code, UseStrictText) # {}) <=> EveryMemberStrict
     /\ Cardinality(Positions(Artifact.code, UseStrictText)) <= 1

\* A CommonJS chunk of two members that gets the prologue only because the
\* member that is not an ES module is already strict.
C3_Witness ==
  /\ Returned
  /\ options.format = "Cjs"
  /\ Len(this.modules) = 2
  /\ \E id \in Range(this.modules) :
       /\ graph.normal_modules[id].exports_kind # "Esm"
       /\ graph.ast_table[id].contains_use_strict
  /\ \E id \in Range(this.modules) : graph.normal_modules[id].exports_kind = "Esm"
  /\ Positions(Artifact.code, UseStrictText) # {}

\* A CommonJS chunk with a sloppy member: no prologue.
C3_WitnessSloppy ==
  /\ Returned
  /\ options.format = "Cjs"
  /\ \E id \in Range(this.modules) :
       /\ graph.normal_modules[id].exports_kind = "CommonJs"
       /\ ~graph.ast_table[id].contains_use_strict
  /\ \E id \in Range(this.modules) : graph.normal_modules[id].exports_kind = "Esm"
  /\ Positions(Artifact.code, UseStrictText) = {}

EntryMeta == graph.metas[this.kind.module]
IsEntry == this.kind.tag = "EntryPoint"
ExportDefaultText == "export default " \o this.canonical_names[WrapperSymbol] \o "();\n"

\* C4: in the output of an ES-module entry chunk whose entry is CJS-wrapped
\* the export default statement stands once, after every module fragment and
\* before the export block and the footer text.
C4_ExportDefaultPlacement ==
  (op = "render_chunk" /\ Returned /\ options.format = "Esm" /\ IsEntry
     /\ EntryMeta.wrap_kind = "Cjs") =>
     LET code == Artifact.code
         at == Positions(code, ExportDefaultText)
         exports == RenderChunkExports(this, "Esm")
     IN  /\ Cardinality(at) = 1
         /\ \A w \in at :
              /\ \A i \in DOMAIN code : code[i] \in MemberCodes => i < w
              /\ \A i \in DOMAIN code : (IsSome(exports) /\ code[i] = Unwrap(exports)) => w < i
              /\ \A i \in DOMAIN code : code[i] = FooterText => w < i
              /\ IsSome(exports) => Positions(code, Unwrap(exports)) # {}

\* Such a chunk with two fragments, an export block and a footer text.
C4_Witness ==
  /\ Returned
  /\ options.format = "Esm"
  /\ IsEntry
  /\ EntryMeta.wrap_kind = "Cjs"
  /\ Len(StaticFragments) = 2
  /\ this.exports_to_other_chunks # <<>>
  /\ options.footer = "OkText"
  /\ Positions(Artifact.code, FooterText) # {}


Earlier(i) == {trace[j] : j \in 1..(i - 1)}
Stages == Range(trace)

\* C5: the footer callable is invoked only after every code generation stage
\* (import preamble, module fragments, use strict prologue, wrapper
\* invocation, export block), and the banner callable only after all of
\* these and after the footer call.
C5_HooksAfterAllStages ==
  \A i \in DOMAIN trace :
    /\ trace[i] = "footer" =>
         /\ {"modules", "use_strict", "wrapper", "exports"} \subseteq Earlier(i)
         /\ options.format # "App" => "imports" \in Earlier(i)
    /\ trace[i] = "banner" =>
         /\ {"modules", "use_strict", "wrapper", "exports"} \subseteq Earlier(i)
         /\ options.footer # "Absent" => "footer" \in Earlier(i)

\* The half of C5 that is about the footer alone.
FooterAfterAllStages ==
  \A i \in DOMAIN trace :
    trace[i] = "footer" =>
      /\ {"modules", "use_strict", "wrapper", "exports"} \subseteq Earlier(i)
      /\ options.format # "App" => "imports" \in Earlier(i)

\* Where the banner call stands: behind the summary, ahead of the rest.
BannerRightAfterSummary ==
  \A i \in DOMAIN trace :
    trace[i] = "banner" =>
      /\ {"modules", "summary"} \subseteq Earlier(i)
      /\ Earlier(i) \cap {"use_strict", "wrapper", "exports", "footer", "content"} = {}

\* The callable was called and its call has ended in an error or was dropped.
HookFailed(hook) ==
  /\ options[hook] \in {"Err", "Cancel"}
  /\ \E i \in DOMAIN calls : calls[i].hook = hook
  /\ pc \notin {"banner_await", "footer_await"}

\* C6: once the banner or the footer callable has failed (error or
\* cancellation) the render ends without an artifact: an error is returned
\* or the call is dropped, and no code, map or summary comes back.
C6_HookFailureNoArtifact ==
  (op = "render_chunk" /\ (HookFailed("banner") \/ HookFailed("footer"))) =>
     /\ result = None
     /\ pc \in {"returned_err", "cancelled"}
     /\ pc = "returned_err" <=> failure # NoFailure
     /\ pc = "returned_err" <=>
          options[calls[Len(calls)].hook] = "Err"

\* A footer that fails after banner, prologue, wrapper... have been added.
C6_Witness ==
  /\ pc = "returned_err"
  /\ HookFailed("footer")
  /\ Len(calls) = 2
  /\ prepend_source # <<>>
  /\ {"use_strict", "wrapper", "exports"} \subseteq Stages
  /\ result = None

\* A banner that fails.
C6_WitnessBanner ==
  /\ pc = "returned_err"
  /\ HookFailed("banner")
  /\ result = None

\* The resolved file path of the chunk has no parent directory.
FilePathWithoutParent ==
  /\ this.preliminary_filename # None
  /\ LET name == Unwrap(this.preliminary_filename)
     IN  /\ name.comps = <<>>
         /\ \/ name.abs
            \/ options.dir.comps = <<>> /\ (options.dir.abs \/ options.cwd.comps = <<>>)

\* C7: a chunk without preliminary file name, or whose resolved file path
\* has no parent directory, never yields an artifact: the render that gets
\* as far as the file path panics and substitutes nothing.
C7_BrokenFileNameIsFatal ==
  (op = "render_chunk" /\ (this.preliminary_filename = None \/ FilePathWithoutParent)) =>
     /\ result = None
     /\ pc # "returned_ok"
     /\ "content" \in Stages =>
          /\ pc = "panicked"
          /\ failure = IF this.preliminary_filename = None
                       THEN Message("chunk file name should be generated before rendering")
                       ELSE Message("chunk file name should have a parent")

\* The render of a chunk without file name, panicked after both hooks ran.
C7_Witness ==
  /\ pc = "panicked"
  /\ this.preliminary_filename = None
  /\ Len(calls) = 2
  /\ "content" \in Stages
  /\ result = None

\* The render of a chunk whose file path is a root.
C7_WitnessNoParent ==
  /\ pc = "panicked"
  /\ FilePathWithoutParent
  /\ ~Unwrap(this.preliminary_filename).abs
  /\ result = None

\* The entry of the entry chunk is wrapped and has no wrapper reference.
WrapTargetMissing ==
  /\ IsEntry
  /\ EntryMeta.wrap_kind \in {"Esm", "Cjs"}
  /\ EntryMeta.wrapper_ref = None

\* C8 as stated: under every output format the render of an entry chunk
\* whose wrapped entry has no wrapper reference returns no artifact.
C8_MissingWrapTargetFatalEveryFormat ==
  (op = "render_chunk" /\ WrapTargetMissing) => result = None /\ pc # "returned_ok"

\* C8 amended: under Esm such a render returns no artifact and panics when
\* it reaches the wrapper stage; under Cjs and App the wrapper reference is
\* not read, the wrapper stage never panics and the render goes on.
C8_MissingWrapTargetFatalUnderEsm ==
  (op = "render_chunk" /\ WrapTargetMissing) =>
     /\ options.format = "Esm" =>
          /\ result = None
          /\ pc \notin {"returned_ok", "exports", "footer", "footer_await", "finish"}
          /\ "wrapper" \notin Stages
          /\ pc = "panicked" => failure = UnwrapNoneMessage
     /\ options.format \in {"Cjs", "App"} =>
          /\ failure # UnwrapNoneMessage
          /\ pc = "exports" => "wrapper" \in Stages /\ OfStage(inner, "wrapper") = <<>>

\* The panic of the wrapper stage under Esm.
C8_Witness ==
  /\ pc = "panicked"
  /\ WrapTargetMissing
  /\ options.format = "Esm"
  /\ failure = UnwrapNoneMessage
  /\ {"modules", "use_strict"} \subseteq Stages

\* A Cjs or App render of such a chunk that returned its artifact.
C8_WitnessOtherFormats ==
  /\ Returned
  /\ WrapTargetMissing
  /\ options.format \in {"Cjs", "App"}

InitializerName == this.canonical_names[WrapperSymbol]
WrapperTexts == {InitializerName \o "();",
                 "export default " \o InitializerName \o "();",
                 "export default " \o InitializerName \o "();\n"}

\* The wrapper invocations among the sources.
WrapperInvocations(sources) ==
  LET IsWrapper(t) == t \in WrapperTexts IN SelectSeq(Texts(sources), IsWrapper)

\* What C9 lets the wrapper stage append, cjs being the CJS-wrap text.
WrapperExpected(cjs) ==
  IF IsEntry /\ options.format = "Esm" /\ EntryMeta.wrap_kind = "Esm"
  THEN <<InitializerName \o "();">>
  ELSE IF IsEntry /\ options.format = "Esm" /\ EntryMeta.wrap_kind = "Cjs"
  THEN <<cjs>>
  ELSE <<>>

\* C9: the wrapper stage appends exactly <initializer>(); for an ESM-wrapped
\* entry under Esm, exactly export default <initializer>(); for a
\* CJS-wrapped one, nothing otherwise, and never more than one.
C9_WrapperInvocationExact ==
  (op = "render_chunk" /\ "wrapper" \in Stages) =>
     /\ WrapperInvocations(inner) = WrapperExpected("export default " \o InitializerName \o "();")
     /\ WrapperInvocations(prepend_source) = <<>>

\* What the wrapper stage does append: the texts above, but the statement
\* export default <initializer>(); with a line feed behind it.
WrapperInvocationWithLineFeed ==
  /\ (op = "render_chunk" /\ "wrapper" \in Stages) =>
       /\ WrapperInvocations(inner) =
            WrapperExpected("export default " \o InitializerName \o "();\n")
       /\ WrapperInvocations(prepend_source) = <<>>
  /\ (op = "render_chunk" /\ "wrapper" \notin Stages) =>
       WrapperInvocations(prepend_source \o inner) = <<>>

\* A returned Esm entry chunk with the CJS-wrap invocation and its line feed.
CjsWrapInvocationReached ==
  /\ Returned
  /\ IsEntry
  /\ options.format = "Esm"
  /\ EntryMeta.wrap_kind = "Cjs"
  /\ WrapperInvocations(inner) = <<"export default " \o InitializerName \o "();\n">>

\* A returned Esm entry chunk with the ESM-wrap invocation.
EsmWrapInvocationReached ==
  /\ Returned
  /\ IsEntry
  /\ options.format = "Esm"
  /\ EntryMeta.wrap_kind = "Esm"
  /\ WrapperInvocations(inner) = <<InitializerName \o "();">>

\* A returned Cjs entry chunk with a wrapped entry and no invocation.
CjsFormatNoInvocationReached ==
  /\ Returned
  /\ IsEntry
  /\ options.format = "Cjs"
  /\ EntryMeta.wrap_kind = "Cjs"
  /\ EntryMeta.wrapper_ref # None
  /\ WrapperInvocations(inner) = <<>>

\* The name-mapping records of the members that rendered and whose path
\* does not start with a null byte.
RenderedModulesOfMembers ==
  LET ids == {id \in Range(RenderingMembers) : ~graph.normal_modules[id].virtual}
  IN  [path \in {<<"src", ModuleName(id)>> : id \in ids} |-> [code |-> "code of " \o path[2]]]

SummaryOfMembers ==
  [is_entry |-> IsEntry, module_ids |-> this.modules, modules |-> RenderedModulesOfMembers]

\* C10: the summary is complete (all members rendered and collected) before
\* either hook is invoked, both hooks receive it, and the artifact returns
\* it unchanged.
C10_SummaryBeforeHooks ==
  op = "render_chunk" =>
    /\ \A i \in DOMAIN calls : calls[i].arg = Some(SummaryOfMembers)
    /\ \A i \in DOMAIN trace :
         trace[i] \in {"banner", "footer"} =>
           \E j \in 1..(i - 1) : trace[j] = "summary" /\ "modules" \in Earlier(j)
    /\ calls # <<>> => AllRendered /\ rendered_chunk = Some(SummaryOfMembers)
    /\ Returned => Artifact.rendered_chunk = SummaryOfMembers

\* A returned render whose banner and footer were both called, with a
\* summary that lists a module.
C10_Witness ==
  /\ Returned
  /\ op = "render_chunk"
  /\ Len(calls) = 2
  /\ calls[1].hook = "banner"
  /\ calls[2].hook = "footer"
  /\ DOMAIN Artifact.rendered_chunk.modules # {}
  /\ calls[1].arg = calls[2].arg


\* The export block texts of the chunk, one per format that has its own.
ExportBlockTexts ==
  {Unwrap(RenderChunkExports(this, f)) : f \in {g \in Formats : IsSome(RenderChunkExports(this, g))}}

\* The export blocks among the sources.
ExportBlocks(sources) ==
  LET IsBlock(t) == t \in ExportBlockTexts IN SelectSeq(Texts(sources), IsBlock)

\* C11: render_chunk emits the export block only under Esm and Cjs, and there
\* once when the chunk exports something; under App neither the sources nor
\* the final output hold an export block, whatever the export map holds.
C11_ExportBlockOnlyEsmCjs ==
  op = "render_chunk" =>
    /\ options.format = "App" =>
         /\ ExportBlocks(prepend_source \o inner) = <<>>
         /\ Returned => \A i \in DOMAIN Artifact.code : Artifact.code[i] \notin ExportBlockTexts
    /\ (options.format \in {"Esm", "Cjs"} /\ "exports" \in Stages) =>
         ExportBlocks(inner) =
           IF this.exports_to_other_chunks = <<>> THEN <<>>
           ELSE <<Unwrap(RenderChunkExports(this, options.format))>>
    /\ "exports" \notin Stages => ExportBlocks(prepend_source \o inner) = <<>>

\* A returned App render of a chunk that exports to other chunks.
C11_Witness ==
  /\ Returned
  /\ op = "render_chunk"
  /\ options.format = "App"
  /\ this.exports_to_other_chunks # <<>>
  /\ "exports" \in Stages

\* A returned Cjs render with its export block.
C11_WitnessCjs ==
  /\ Returned
  /\ options.format = "Cjs"
  /\ ExportBlocks(inner) = <<"module.exports = { y$1 as y };">>

\* C12: no step of a render, of one that returns and of one that fails alike,
\* changes the chunk (member list, canonical names, cross-chunk import and
\* export maps, file name), the chunk graph, the link output or the options;
\* a step changes only the render's own locals: the concat source, the
\* name-mapping record, the summary and the bookkeeping of the run.
C12_InputsFrozen ==
  [][/\ this' = this
     /\ this.modules' = this.modules
     /\ this.canonical_names' = this.canonical_names
     /\ this.imports_from_other_chunks' = this.imports_from_other_chunks
     /\ this.exports_to_other_chunks' = this.exports_to_other_chunks
     /\ chunk_graph' = chunk_graph
     /\ graph' = graph
     /\ options' = options]_vars

\* A returned render that filled the concat source and the name mapping of a
\* chunk with imports and exports.
C12_Witness ==
  /\ Returned
  /\ op = "render_chunk"
  /\ this.imports_from_other_chunks # <<>>
  /\ this.exports_to_other_chunks # <<>>
  /\ OfStage(inner, "exports") # <<>>
  /\ DOMAIN rendered_modules # {}
  /\ prepend_source # <<>>

\* A failed render of such a chunk.
C12_WitnessFailed ==
  /\ pc \in {"returned_err", "panicked"}
  /\ op = "render_chunk"
  /\ this.exports_to_other_chunks # <<>>
  /\ OfStage(inner, "exports") # <<>>
  /\ result = None

----------------------------------------------------------------------------
(* load_source *)

\* What the plugin driver's load hook does for the id.
LoadBehaviours == {"Err", "Cancel", "OkNone", "OkEmpty", "OkCode"}
PluginCode == "export default 'from plugin';"
FileText == "export default 'from disk';"

SourcePaths == {"/src/a.js", "/src/b.js"}
\* A file system: per path no file, an empty file or a file with text.
FileSystems == [SourcePaths -> {"missing", "empty", "text"}]

Ok(v) == [tag |-> "Ok", value |-> v]
Err(e) == [tag |-> "Err", value |-> e]

\* plugin_driver.load(&HookLoadArgs { id }).await
PluginDriverLoad(behaviour) ==
  CASE behaviour = "Err"     -> [tag |-> "Err", value |-> None]
    [] behaviour = "Cancel"  -> [tag |-> "Cancel", value |-> None]
    [] behaviour = "OkNone"  -> [tag |-> "Ok", value |-> None]
    [] behaviour = "OkEmpty" -> [tag |-> "Ok", value |-> Some([code |-> ""])]
    [] behaviour = "OkCode"  -> [tag |-> "Ok", value |-> Some([code |-> PluginCode])]

\* fs.read_to_string(path)
ReadToString(fs, path) ==
  CASE fs[path] = "missing" -> Err("No such file or directory")
    [] fs[path] = "empty"   -> Ok("")
    [] fs[path] = "text"    -> Ok(FileText \o " // " \o path)

\* The render variables while another function is the one called.
InitIdle(fn) ==
  /\ op = fn
  /\ pool = 1
  /\ chunk_graph = OtherChunks
  /\ this = MkChunk(Common, <<>>, <<>>, <<>>, DefaultFileName)
  /\ options = MkOptions("Esm", "Absent", "Absent", DefaultCwd, DefaultDir)
  /\ graph = MkGraph(<<>>, <<>>, <<>>, <<>>, <<>>, 0, "None", None)
  /\ InitLocals

\* A call of load_source: every hook behaviour, path, ignored flag and file
\* system.
InitLoadSource ==
  /\ InitIdle("load_source")
  /\ \E behaviour \in LoadBehaviours, path \in SourcePaths, ignored \in BOOLEAN,
        fs \in FileSystems :
       call = [fn            |-> "load_source",
               pc            |-> "load",
               plugin        |-> behaviour,
               resolved_path |-> [path |-> path, ignored |-> ignored],
               fs            |-> fs,
               hook_ids      |-> <<>>,
               r             |-> None,
               reads         |-> <<>>,
               result        |-> None]

\* plugin_driver.load is called with the id and awaited; load_source is
\* suspended until it completes.
CallLoadHook ==
  /\ call.fn = "load_source"
  /\ call.pc = "load"
  /\ call' = [call EXCEPT !.hook_ids = Append(@, call.resolved_path.path),
                          !.pc = "load_await"]
  /\ UNCHANGED <<inputs, pc, status, slots, finished, prepend_source, inner, rendered_modules,
                 rendered_chunk, calls, trace, joiner, result, failure>>

\* The awaited load hook completes; its error is returned (the ? at line 12).
LoadHook ==
  /\ call.fn = "load_source"
  /\ call.pc = "load_await"
  /\ LET loaded == PluginDriverLoad(call.plugin)
     IN  call' = [call EXCEPT
           !.r = loaded.value,
           !.pc = CASE loaded.tag = "Err" -> "done"
                    [] loaded.tag = "Cancel" -> "cancelled"
                    [] OTHER -> "select",
           !.result = IF loaded.tag = "Err" THEN Some(Err("load hook failed")) ELSE None]
  /\ UNCHANGED <<inputs, pc, status, slots, finished, prepend_source, inner, rendered_modules,
                 rendered_chunk, calls, trace, joiner, result, failure>>

\* Mutant: the ignored flag is not looked at.
SelectSourceIgnoringFlag ==
  /\ call.fn = "load_source"
  /\ call.pc = "select"
  /\ LET path == call.resolved_path.path
     IN  IF IsSome(call.r)
         THEN call' = [call EXCEPT !.pc = "done", !.result = Some(Ok(Unwrap(call.r).code))]
         ELSE call' = [call EXCEPT !.pc = "done",
                                   !.reads = Append(@, path),
                                   !.result = Some(ReadToString(call.fs, path))]
  /\ UNCHANGED <<inputs, pc, status, slots, finished, prepend_source, inner, rendered_modules,
                 rendered_chunk, calls, trace, joiner, result, failure>>

\* Mutant: the file is read first and used where the plugin supplies nothing.
SelectSourceReadingFirst ==
  /\ call.fn = "load_source"
  /\ call.pc = "select"
  /\ LET path == call.resolved_path.path
         text == ReadToString(call.fs, path)
     IN  call' = [call EXCEPT
           !.pc = "done",
           !.reads = Append(@, path),
           !.result = IF IsSome(call.r) THEN Some(Ok(Unwrap(call.r).code))
                      ELSE IF call.resolved_path.ignored \/ text.tag = "Err" THEN Some(Ok(""))
                      ELSE Some(text)]
  /\ UNCHANGED <<inputs, pc, status, slots, finished, prepend_source, inner, rendered_modules,
                 rendered_chunk, calls, trace, joiner, result, failure>>

\* The if / else if / else that selects the source, and Ok(source).
SelectSource ==
  /\ call.fn = "load_source"
  /\ call.pc = "select"
  /\ LET path == call.resolved_path.path
     IN  IF IsSome(call.r)
         THEN call' = [call EXCEPT !.pc = "done", !.result = Some(Ok(Unwrap(call.r).code))]
         ELSE IF call.resolved_path.ignored
         THEN call' = [call EXCEPT !.pc = "done", !.result = Some(Ok(""))]
         ELSE call' = [call EXCEPT !.pc = "done",
                                   !.reads = Append(@, path),
                                   !.result = Some(ReadToString(call.fs, path))]
  /\ UNCHANGED <<inputs, pc, status, slots, finished, prepend_source, inner, rendered_modules,
                 rendered_chunk, calls, trace, joiner, result, failure>>

NextLoadSource ==
  \/ CallLoadHook
  \/ LoadHook
  \/ SelectSource

SpecLoadSource == InitLoadSource /\ [][NextLoadSource]_vars

LoadSourceDone == call.fn = "load_source" /\ call.pc = "done"
LoadSourceResult == Unwrap(call.result)

\* C13 as stated: load_source of a path marked ignored returns empty text.
C13_IgnoredIsEmpty ==
  (LoadSourceDone /\ call.resolved_path.ignored) => LoadSourceResult = Ok("")

\* C13 amended: load_source of a path marked ignored returns empty text,
\* without reading the file system, when the load hook completes without
\* supplying content; content a plugin supplies is returned as it is, and a
\* failure of the hook is returned as the error.
C13_IgnoredIsEmptyUnlessPlugin ==
  (LoadSourceDone /\ call.resolved_path.ignored) =>
     /\ call.reads = <<>>
     /\ call.plugin = "OkNone" => LoadSourceResult = Ok("")
     /\ call.plugin = "OkEmpty" => LoadSourceResult = Ok("")
     /\ call.plugin = "OkCode" => LoadSourceResult = Ok(PluginCode)
     /\ call.plugin = "Err" => LoadSourceResult.tag = "Err"

\* An ignored path with text on disk and a silent hook: empty text.
C13_Witness ==
  /\ LoadSourceDone
  /\ call.resolved_path.ignored
  /\ call.plugin = "OkNone"
  /\ call.fs[call.resolved_path.path] = "text"
  /\ LoadSourceResult = Ok("")

\* An ignored path for which a plugin supplies code: that code comes back.
C13_WitnessPluginCode ==
  /\ LoadSourceDone
  /\ call.resolved_path.ignored
  /\ call.plugin = "OkCode"
  /\ LoadSourceResult = Ok(PluginCode)

\* C14: load_source reads the file system only when the load hook completed
\* successfully without content and the path is not ignored, and then reads
\* the resolved path once; when a plugin supplies content, the path is
\* ignored or the hook fails nothing is read; a failure of the hook or of the
\* read comes back as an error, never as empty or partial text.
C14_FileReadOnlyAsLastResort ==
  call.fn = "load_source" =>
    /\ call.reads # <<>> =>
         /\ call.plugin = "OkNone"
         /\ ~call.resolved_path.ignored
         /\ call.hook_ids # <<>>
         /\ call.reads = <<call.resolved_path.path>>
    /\ (call.pc = "done" /\ call.plugin = "OkNone" /\ ~call.resolved_path.ignored) =>
         /\ call.reads = <<call.resolved_path.path>>
         /\ LoadSourceResult = ReadToString(call.fs, call.resolved_path.path)
         /\ call.fs[call.resolved_path.path] = "missing" => LoadSourceResult.tag = "Err"
    /\ (call.pc = "done" /\ call.plugin = "Err") =>
         LoadSourceResult = Err("load hook failed")
    /\ (call.pc = "done" /\ LoadSourceResult.tag = "Ok") =>
         /\ call.plugin \in {"OkNone", "OkEmpty", "OkCode"}
         /\ call.plugin = "OkNone" =>
              call.resolved_path.ignored \/ call.fs[call.resolved_path.path] # "missing"
    /\ call.pc = "cancelled" => call.result = None /\ call.reads = <<>>

\* The read of a file with text after a silent hook.
C14_Witness ==
  /\ LoadSourceDone
  /\ call.plugin = "OkNone"
  /\ ~call.resolved_path.ignored
  /\ call.reads = <<call.resolved_path.path>>
  /\ LoadSourceResult.tag = "Ok"
  /\ LoadSourceResult.value # ""

\* The read of a missing file: an error.
C14_WitnessReadError ==
  /\ LoadSourceDone
  /\ call.reads # <<>>
  /\ LoadSourceResult.tag = "Err"

\* A plugin that supplies content for a path with text on disk: no read.
C14_WitnessPlugin ==
  /\ LoadSourceDone
  /\ call.plugin = "OkCode"
  /\ ~call.resolved_path.ignored
  /\ call.fs[call.resolved_path.path] = "text"
  /\ call.reads = <<>>

----------------------------------------------------------------------------
(* Chunk::render_file_name *)

\* Calls of render_file_name in one run.
MaxRenderCalls == 3

\* entry_file_names: file name templates as their literal parts and [name]
\* placeholders.
FileNameTemplates ==
  {<<"[name]", ".js">>, <<"chunks/", "[name]", "-", "[name]", ".mjs">>, <<"bundle.js">>}

\* FileNameTemplate::render with FileNameRenderOptions { name }: every [name]
\* is replaced by the name if there is one.
TemplateRender(template, name) ==
  JoinText([i \in DOMAIN template |->
              IF template[i] = "[name]" /\ IsSome(name) THEN Unwrap(name) ELSE template[i]], "")

ChunkNames == {None, Some("main"), Some("shared")}

\* Chunk::new
ChunkNew(name, entry_module, bits, modules) ==
  [entry_module              |-> entry_module,
   modules                   |-> modules,
   name                      |-> name,
   file_name                 |-> None,
   canonical_names           |-> <<>>,
   bits                      |-> bits,
   imports_from_other_chunks |-> <<>>,
   exports_to_other_chunks   |-> <<>>]

\* The chunks render_file_name is called on: every name, entry and common
\* chunks, one and two members, with and without exports.
NamedChunks ==
  {[ChunkNew(name, entry, {1}, ms) EXCEPT !.exports_to_other_chunks = exports] :
     name \in ChunkNames, entry \in {None, Some(1)}, ms \in {<<1>>, <<2, 1>>},
     exports \in {<<>>, OneExport}}

\* Two chunks, one template, no call yet.
InitRenderFileName ==
  /\ InitIdle("render_file_name")
  /\ \E template \in FileNameTemplates, c1 \in NamedChunks, c2 \in NamedChunks :
       call = [fn               |-> "render_file_name",
               entry_file_names |-> template,
               chunks           |-> <<c1, c2>>,
               before           |-> <<c1, c2>>,
               rendered         |-> <<>>]

\* Mutant: a chunk without name gets the number of its entry module as name.
RenderFileNameEntryFallback(c) ==
  /\ call.fn = "render_file_name"
  /\ Len(call.rendered) < MaxRenderCalls
  /\ LET self == call.chunks[c]
         name == IF IsSome(self.name) \/ self.entry_module = None THEN self.name
                 ELSE Some(ModuleName(Unwrap(self.entry_module)))
         file_name == TemplateRender(call.entry_file_names, name)
     IN  call' = [call EXCEPT !.chunks[c].file_name = Some(file_name),
                              !.rendered = Append(@, [chunk |-> c, file_name |-> file_name])]
  /\ UNCHANGED <<inputs, pc, status, slots, finished, prepend_source, inner, rendered_modules,
                 rendered_chunk, calls, trace, joiner, result, failure>>

\* self.file_name = Some(entry_file_names.render(&FileNameRenderOptions { name }))
RenderFileName(c) ==
  /\ call.fn = "render_file_name"
  /\ Len(call.rendered) < MaxRenderCalls
  /\ LET self == call.chunks[c]
         file_name == TemplateRender(call.entry_file_names, self.name)
     IN  call' = [call EXCEPT !.chunks[c].file_name = Some(file_name),
                              !.rendered = Append(@, [chunk |-> c, file_name |-> file_name])]
  /\ UNCHANGED <<inputs, pc, status, slots, finished, prepend_source, inner, rendered_modules,
                 rendered_chunk, calls, trace, joiner, result, failure>>

NextRenderFileName == \E c \in {1, 2} : RenderFileName(c)

SpecRenderFileName == InitRenderFileName /\ [][NextRenderFileName]_vars

\* The calls on chunk c, in their order.
RenderedOf(c) == LET Of(e) == e.chunk = c IN SelectSeq(call.rendered, Of)

\* C15: render_file_name sets the file name of the chunk to a value that
\* depends on the template and the chunk's name alone: calls on chunks with
\* equal names (the same chunk again or another chunk, whatever their other
\* fields) give equal file names, the chunk holds the file name of its last
\* call, and no call changes another field of a chunk.
C15_FileNameFromTemplateAndName ==
  call.fn = "render_file_name" =>
    /\ \A i, j \in DOMAIN call.rendered :
         call.chunks[call.rendered[i].chunk].name = call.chunks[call.rendered[j].chunk].name
           => call.rendered[i].file_name = call.rendered[j].file_name
    /\ \A i \in DOMAIN call.rendered :
         call.rendered[i].file_name =
           TemplateRender(call.entry_file_names, call.before[call.rendered[i].chunk].name)
    /\ \A c \in DOMAIN call.chunks :
         /\ call.chunks[c].file_name =
              IF RenderedOf(c) = <<>> THEN call.before[c].file_name
              ELSE Some(RenderedOf(c)[Len(RenderedOf(c))].file_name)
         /\ [call.chunks[c] EXCEPT !.file_name = call.before[c].file_name] = call.before[c]

\* Two chunks without name that differ in entry module and members, both
\* rendered, one of them twice, under a template with a placeholder.
C15_Witness ==
  /\ call.fn = "render_file_name"
  /\ Len(call.rendered) = 3
  /\ {call.rendered[i].chunk : i \in DOMAIN call.rendered} = {1, 2}
  /\ call.chunks[1].name = None
  /\ call.chunks[2].name = None
  /\ call.chunks[1].entry_module # call.chunks[2].entry_module
  /\ call.chunks[1].modules # call.chunks[2].modules
  /\ "[name]" \in Range(call.entry_file_names)
  /\ call.chunks[1].file_name = call.chunks[2].file_name

\* Chunks with different names get different file names.
C15_WitnessNames ==
  /\ call.fn = "render_file_name"
  /\ call.chunks[1].name = Some("main")
  /\ call.chunks[2].name = Some("shared")
  /\ call.chunks[1].file_name = Some("chunks/main-main.mjs")
  /\ call.chunks[2].file_name = Some("chunks/shared-shared.mjs")

----------------------------------------------------------------------------

\* The pieces of the output that do not come from a hook, in their order:
\* prologue, import preamble, path comment and code of every member that
\* renders, wrapper invocation, export block.
PiecesWithoutHooks ==
  LET prologue == IF options.format = "Cjs" /\ EveryMemberStrict THEN <<UseStrictText>> ELSE <<>>
      preamble == IF options.format \in {"Esm", "Cjs"}
                  THEN <<RenderChunkImports(this, chunk_graph, options.format)>> ELSE <<>>
      members == Flatten([k \in DOMAIN RenderingMembers |->
                   <<"// " \o ModuleName(RenderingMembers[k]), ModuleCode(RenderingMembers[k])>>])
      wrapper == WrapperExpected("export default " \o InitializerName \o "();\n")
      exports == IF options.format \in {"Esm", "Cjs"} /\ this.exports_to_other_chunks # <<>>
                 THEN <<Unwrap(RenderChunkExports(this, options.format))>> ELSE <<>>
  IN  prologue \o preamble \o members \o wrapper \o exports

\* The piece a callable of the given behaviour contributes.
HookPiece(behaviour, text) == IF behaviour = "OkText" THEN <<text>> ELSE <<>>

\* The final text of the render with callables of the given behaviours.
CodeWithHooks(banner, footer) ==
  JoinWith(HookPiece(banner, BannerText) \o PiecesWithoutHooks \o HookPiece(footer, FooterText),
           "\n")

Silent == {"Absent", "OkNone", "OkEmpty"}

\* C16: a banner or footer callable that is not configured, returns no
\* result or returns empty text adds no piece: the final output is the one of
\* the same render with that callable absent; the text of a footer that
\* returns some is the last piece, behind the export block.
C16_SilentHookAddsNothing ==
  (op = "render_chunk" /\ Returned) =>
     /\ Artifact.code = CodeWithHooks(options.banner, options.footer)
     /\ options.banner \in Silent => Artifact.code = CodeWithHooks("Absent", options.footer)
     /\ options.footer \in Silent => Artifact.code = CodeWithHooks(options.banner, "Absent")
     /\ options.footer = "OkText" =>
          /\ Artifact.code[Len(Artifact.code)] = FooterText
          /\ Positions(Artifact.code, FooterText) = {Len(Artifact.code)}
          /\ \A i \in DOMAIN Artifact.code :
               Artifact.code[i] \in ExportBlockTexts => i < Len(Artifact.code)

\* A returned render whose banner returned empty text and whose footer
\* returned nothing.
C16_Witness ==
  /\ Returned
  /\ options.banner = "OkEmpty"
  /\ options.footer = "OkNone"
  /\ Len(calls) = 2
  /\ Artifact.code = CodeWithHooks("Absent", "Absent")

\* A returned render with footer text behind an export block.
C16_WitnessFooter ==
  /\ Returned
  /\ options.footer = "OkText"
  /\ options.banner = "OkNone"
  /\ ExportBlocks(inner) # <<>>
  /\ Artifact.code[Len(Artifact.code)] = FooterText

\* A returned render whose footer returned empty text and whose banner
\* returned text.
C16_WitnessEmptyFooter ==
  /\ Returned
  /\ options.footer = "OkEmpty"
  /\ options.banner = "OkText"
  /\ Artifact.code = CodeWithHooks("OkText", "Absent")

----------------------------------------------------------------------------
(* ImportKind, RawImportRecord *)

ImportKinds == {"Import", "DynamicImport", "Require"}

\* Mutant: a require call does not count as static.
IsStaticImportOnly(kind) == kind = "Import"

\* ImportKind::is_static: matches!(self, Self::Import | Self::Require)
IsStatic(kind) ==
  CASE kind = "Import"        -> TRUE
    [] kind = "Require"       -> TRUE
    [] kind = "DynamicImport" -> FALSE

\* impl Display for ImportKind
Display(kind) ==
  CASE kind = "Import"        -> "import-statement"
    [] kind = "DynamicImport" -> "dynamic-import"
    [] kind = "Require"       -> "require-call"

Specifiers == {"./a.js", "./b.js", "lodash"}
NamespaceRefs == {"ns_a", "ns_b"}

\* RawImportRecord::new
RawImportRecordNew(specifier, kind, namespace_ref) ==
  [module_request          |-> specifier,
   kind                    |-> kind,
   namespace_ref           |-> namespace_ref,
   contains_import_default |-> FALSE,
   contains_import_star    |-> FALSE]

\* The raw records of a scanned module: as new, or with the flags the scan
\* of the import has set.
RawImportRecords ==
  {[RawImportRecordNew(s, k, n) EXCEPT !.contains_import_default = d,
                                       !.contains_import_star = st] :
     s \in Specifiers, k \in ImportKinds, n \in NamespaceRefs, d \in BOOLEAN, st \in BOOLEAN}

\* A raw record that is not yet resolved.
InitImportRecord ==
  /\ InitIdle("into_import_record")
  /\ \E raw \in RawImportRecords :
       call = [fn |-> "into_import_record", self |-> raw, resolved_module |-> None,
               record |-> None]

\* RawImportRecord::into_import_record
IntoImportRecord(resolved_module) ==
  /\ call.fn = "into_import_record"
  /\ call.record = None
  /\ call' = [call EXCEPT
       !.resolved_module = Some(resolved_module),
       !.record = Some([module_request          |-> call.self.module_request,
                        resolved_module         |-> resolved_module,
                        kind                    |-> call.self.kind,
                        namespace_ref           |-> call.self.namespace_ref,
                        contains_import_star    |-> call.self.contains_import_star,
                        contains_import_default |-> call.self.contains_import_default])]
  /\ UNCHANGED <<inputs, pc, status, slots, finished, prepend_source, inner, rendered_modules,
                 rendered_chunk, calls, trace, joiner, result, failure>>

NextImportRecord == \E m \in ModuleIds : IntoImportRecord(m)

SpecImportRecord == InitImportRecord /\ [][NextImportRecord]_vars

\* C17: is_static is true of Import and Require and false of DynamicImport;
\* the diagnostic labels are import-statement, dynamic-import and
\* require-call, one per kind; into_import_record keeps the kind, so the
\* resolved record is static exactly when the raw one was.
C17_StaticKindsAndLabels ==
  call.fn = "into_import_record" =>
    /\ LET kind == call.self.kind
       IN  /\ kind \in {"Import", "Require"} => IsStatic(kind)
           /\ kind = "DynamicImport" => ~IsStatic(kind)
           /\ kind = "Import" => Display(kind) = "import-statement"
           /\ kind = "DynamicImport" => Display(kind) = "dynamic-import"
           /\ kind = "Require" => Display(kind) = "require-call"
    /\ \A a, b \in ImportKinds : Display(a) = Display(b) => a = b
    /\ IsSome(call.record) =>
         LET record == Unwrap(call.record)
         IN  /\ record.kind = call.self.kind
             /\ IsStatic(record.kind) = IsStatic(call.self.kind)
             /\ Display(record.kind) = Display(call.self.kind)
             /\ record.resolved_module = Unwrap(call.resolved_module)
             /\ [f \in DOMAIN call.self |-> record[f]] = call.self

\* A resolved require record: static before and after.
C17_Witness ==
  /\ call.fn = "into_import_record"
  /\ IsSome(call.record)
  /\ call.self.kind = "Require"
  /\ Unwrap(call.record).kind = "Require"
  /\ IsStatic(Unwrap(call.record).kind)

\* A resolved dynamic import: not static.
C17_WitnessDynamic ==
  /\ call.fn = "into_import_record"
  /\ IsSome(call.record)
  /\ Unwrap(call.record).kind = "DynamicImport"
  /\ ~IsStatic(Unwrap(call.record).kind)
  /\ Display(Unwrap(call.record).kind) = "dynamic-import"

----------------------------------------------------------------------------

PathComment(id) == "// " \o ModuleName(id)
MemberComments == {PathComment(this.modules[i]) : i \in DOMAIN this.modules}

\* The path comments and the member code among the texts, in their order.
CommentsAndFragments(texts) ==
  LET IsOne(t) == t \in MemberComments \cup MemberCodes IN SelectSeq(texts, IsOne)

\* Path comment and code of every member that renders, in member order.
CommentedFragments ==
  Flatten([k \in DOMAIN RenderingMembers |->
             <<PathComment(RenderingMembers[k]), ModuleCode(RenderingMembers[k])>>])

SilentMembers == {id \in Range(this.modules) : graph.ast_table[id].body = "empty"}

\* C18: under every format the source right before the code of a module is
\* the path comment of that module, and a path comment stands only there; a
\* member whose render returns nothing adds no path comment, no code and no
\* name-mapping entry, and the others keep their order; ahead of the module
\* stage the concat source holds the import preamble at most.
C18_PathCommentBeforeFragment ==
  /\ (op = "render_chunk" /\ "modules" \in Stages) =>
       /\ \A i \in DOMAIN inner : \A id \in Range(this.modules) :
            /\ inner[i].text = ModuleCode(id) => i > 1 /\ inner[i - 1].text = PathComment(id)
            /\ inner[i].text = PathComment(id) =>
                 i < Len(inner) /\ inner[i + 1].text = ModuleCode(id)
       /\ CommentsAndFragments(Texts(inner)) = CommentedFragments
       /\ \A id \in SilentMembers :
            /\ \A i \in DOMAIN inner : inner[i].text \notin {PathComment(id), ModuleCode(id)}
            /\ \A path \in DOMAIN rendered_modules : path[2] # ModuleName(id)
  /\ (op = "render_chunk" /\ Returned) =>
       LET code == Artifact.code
       IN  /\ \A i \in DOMAIN code : \A id \in Range(this.modules) :
                code[i] = ModuleCode(id) =>
                  i > 2 /\ code[i - 1] = "\n" /\ code[i - 2] = PathComment(id)
           /\ CommentsAndFragments(code) = CommentedFragments
  /\ (op = "render_chunk" /\ "modules" \notin Stages) =>
       \A i \in DOMAIN inner :
         i = 1 /\ inner[i].text = RenderChunkImports(this, chunk_graph, options.format)

\* A returned App render of three members, the middle one without fragment.
C18_Witness ==
  /\ Returned
  /\ op = "render_chunk"
  /\ options.format = "App"
  /\ Len(this.modules) = 3
  /\ this.modules[2] \in SilentMembers
  /\ Len(CommentedFragments) = 4
  /\ CommentsAndFragments(Artifact.code) = CommentedFragments

\* A returned Esm render with a commented fragment behind the preamble.
C18_WitnessEsm ==
  /\ Returned
  /\ options.format = "Esm"
  /\ this.imports_from_other_chunks # <<>>
  /\ Len(Artifact.code) >= 5
  /\ Artifact.code[3] \in MemberComments
  /\ Artifact.code[5] \in MemberCodes

VirtualMembers == {id \in Range(RenderingMembers) : graph.normal_modules[id].virtual}
OrdinaryMembers == {id \in Range(RenderingMembers) : ~graph.normal_modules[id].virtual}

\* C19: under every format a member that renders and whose path starts with
\* a null byte has no entry in the name mapping handed to the summary, while
\* its path comment and code stand in the output at its place in member
\* order; every member that renders and has an ordinary path has its entry.
C19_NullBytePathsUnlisted ==
  (op = "render_chunk" /\ "modules" \in Stages) =>
     /\ \A path \in DOMAIN rendered_modules : ~StartsWithNul(path)
     /\ \A id \in VirtualMembers :
          /\ ResourceId(graph.normal_modules[id]) \notin DOMAIN rendered_modules
          /\ ResourceId(graph.normal_modules[id]) \notin DOMAIN Unwrap(rendered_chunk).modules
          /\ \E k \in DOMAIN RenderingMembers :
               /\ RenderingMembers[k] = id
               /\ CommentsAndFragments(Texts(inner))[2 * k - 1] = PathComment(id)
               /\ CommentsAndFragments(Texts(inner))[2 * k] = ModuleCode(id)
               /\ Returned => CommentsAndFragments(Artifact.code)[2 * k] = ModuleCode(id)
          /\ Returned =>
               ResourceId(graph.normal_modules[id]) \notin DOMAIN Artifact.rendered_chunk.modules
     /\ \A id \in OrdinaryMembers :
          /\ ResourceId(graph.normal_modules[id]) \in DOMAIN rendered_modules
          /\ rendered_modules[ResourceId(graph.normal_modules[id])] = [code |-> ModuleCode(id)]
          /\ ResourceId(graph.normal_modules[id]) \in DOMAIN Unwrap(rendered_chunk).modules
     /\ Cardinality(DOMAIN rendered_modules) = Cardinality(OrdinaryMembers)

\* A returned render of a member with a null-byte path in front of one with
\* an ordinary path, both with a fragment.
C19_Witness ==
  /\ Returned
  /\ op = "render_chunk"
  /\ Len(RenderingMembers) = 2
  /\ RenderingMembers[1] \in VirtualMembers
  /\ RenderingMembers[2] \in OrdinaryMembers
  /\ Cardinality(DOMAIN Artifact.rendered_chunk.modules) = 1
  /\ Positions(Artifact.code, ModuleCode(RenderingMembers[1])) # {}

\* The same under App.
C19_WitnessApp ==
  /\ Returned
  /\ options.format = "App"
  /\ VirtualMembers # {}
  /\ OrdinaryMembers # {}
  /\ DOMAIN rendered_modules # {}

----------------------------------------------------------------------------

FileNameFailures == {Message("chunk file name should be generated before rendering"),
                     Message("chunk file name should have a parent")}

Invoked(hook) == \E i \in DOMAIN calls : calls[i].hook = hook

\* C20: the render of a chunk without preliminary file name, or whose file
\* path has no parent, aborts on that only after all members are rendered
\* and collected and every configured banner and footer callable has been
\* invoked: up to the end of the footer step nothing is detected.
C20_FileNameChecksAfterHooks ==
  op = "render_chunk" =>
    /\ failure \in FileNameFailures =>
         /\ pc = "panicked"
         /\ this.preliminary_filename = None \/ FilePathWithoutParent
         /\ AllRendered
         /\ {"modules", "summary", "use_strict", "wrapper", "exports"} \subseteq Stages
         /\ \A hook \in {"banner", "footer"} : options[hook] # "Absent" => Invoked(hook)
         /\ \A i \in DOMAIN trace : trace[i] = "content" <=> i = Len(trace)
    /\ ((this.preliminary_filename = None \/ FilePathWithoutParent)
          /\ pc \in {"start", "render", "banner", "banner_await", "use_strict", "wrapper",
                     "exports", "footer", "footer_await", "finish"}) =>
         /\ failure = NoFailure
         /\ "content" \notin Stages
    /\ (pc = "panicked" /\ "content" \in Stages) => failure \in FileNameFailures

\* The panic on a missing file name of a render whose banner and footer both
\* returned text and whose members were rendered.
C20_Witness ==
  /\ pc = "panicked"
  /\ this.preliminary_filename = None
  /\ failure = Message("chunk file name should be generated before rendering")
  /\ options.banner = "OkText"
  /\ options.footer = "OkText"
  /\ Invoked("banner")
  /\ Invoked("footer")
  /\ OfStage(inner, "footer") # <<>>
  /\ DOMAIN rendered_modules # {}

\* The panic on a file path without parent, behind a footer call.
C20_WitnessNoParent ==
  /\ pc = "panicked"
  /\ failure = Message("chunk file name should have a parent")
  /\ Invoked("footer")
  /\ AllRendered
====
